---- MODULE Spec2Model ----
(***************************************************************************)
(* Alert escalation manager of src/notification_system/escalation.py.      *)
(*                                                                         *)
(* The escalation store (AlertEscalationManager.active_escalations) is a   *)
(* dictionary alert_id -> escalation record.  Time is the value returned   *)
(* by datetime.utcnow(), in minutes; the running time of one handler is    *)
(* below the resolution of the clock, so every utcnow() of one atomic      *)
(* handler call reads the same value.                                      *)
(*                                                                         *)
(* Notification services of src/notification_system/notifications.py: the  *)
(* rate-limited email and SMS adapters and send_alert_notifications.  Their *)
(* clock counts seconds.                                                   *)
(***************************************************************************)
EXTENDS Integers, Sequences, FiniteSets, TLC

\* ---------------------------------------------------------------- bounds
MaxTime == 60
\* how many initiate, acknowledge and resolve calls a run makes in all
\* (check_escalations passes are not counted)
MaxCalls == 3

AlertIds == {"a1", "a2"}
Users == {"u1", "u2"}
\* the clock moves between calls by one of these numbers of minutes
ClockSteps == {15}
\* alert.get('severity', 'medium'): the four known severities, an unknown
\* one, and an alert without the key
Absent == "<absent>"
AlertSeverities == {"low", "medium", "high", "critical", "extreme", Absent}
Alerts == [id : AlertIds, severity : AlertSeverities]

None == "None"

\* ------------------------------------------------------- EscalationLevel
LEVEL_1 == "level_1"
LEVEL_2 == "level_2"
LEVEL_3 == "level_3"
LEVEL_4 == "level_4"

level_order == <<LEVEL_1, LEVEL_2, LEVEL_3, LEVEL_4>>

\* position of a level in the order L1 < L2 < L3 < L4
LevelIndex(level) == CHOOSE i \in 1..Len(level_order) : level_order[i] = level

\* -------------------------------------------------------- EscalationRule
EscalationRule(severity, initial_level, minutes, max_level, auto_escalate, require_ack) ==
    [severity |-> severity,
     initial_level |-> initial_level,
     escalation_time_minutes |-> minutes,
     max_level |-> max_level,
     auto_escalate |-> auto_escalate,
     require_acknowledgment |-> require_ack]

escalation_rules ==
    [low      |-> EscalationRule("low", LEVEL_1, 60, LEVEL_2, TRUE, FALSE),
     medium   |-> EscalationRule("medium", LEVEL_1, 30, LEVEL_3, TRUE, TRUE),
     high     |-> EscalationRule("high", LEVEL_1, 15, LEVEL_4, TRUE, TRUE),
     critical |-> EscalationRule("critical", LEVEL_1, 5, LEVEL_4, TRUE, TRUE)]

\* contacts of each level: name and whether a phone number is set
contact_groups ==
    [level_1 |-> <<[name |-> "Site Operator 1", phone |-> TRUE],
                   [name |-> "Site Operator 2", phone |-> TRUE]>>,
     level_2 |-> <<[name |-> "Site Supervisor", phone |-> TRUE],
                   [name |-> "Safety Manager", phone |-> TRUE]>>,
     level_3 |-> <<[name |-> "Regional Manager", phone |-> TRUE],
                   [name |-> "Operations Director", phone |-> TRUE]>>,
     level_4 |-> <<[name |-> "Emergency Services", phone |-> TRUE],
                   [name |-> "CEO", phone |-> TRUE]>>]

\* ----------------------------------------------------------------- state
VARIABLES
    active_escalations,  \* self.active_escalations: alert_id -> record
    now,                 \* datetime.utcnow(), minutes
    lastOp,              \* the last event: [op, alert_id, ret] of a call,
                         \* or op = "advance" when the clock moved since
    calls,               \* initiate, acknowledge and resolve calls so far
    sched,               \* a thread inside check_escalations: its position
                         \* and locals
    api,                 \* a thread inside acknowledge_alert or
                         \* resolve_escalation: its position and locals
    email_service,       \* NotificationManager.email_service: sent_count,
                         \* last_reset
    sms_service,         \* NotificationManager.sms_service: sent_count,
                         \* last_reset
    clock,               \* datetime.utcnow() of notifications.py, seconds
    accepted,            \* history: per adapter, the times of the sends
                         \* that returned True
    lastSend,            \* the last send_email or send_sms call
    lastDispatch,        \* the last send_alert_notifications call
    sends,               \* send and dispatch calls so far
    advances,            \* clock moves of notifications.py so far
    ALERTS_DB            \* alerts.py, ALERTS_DB: alert id -> alert

vars == <<active_escalations, now, lastOp, calls, sched, api,
          email_service, sms_service, clock, accepted, lastSend, lastDispatch,
          sends, advances, ALERTS_DB>>

\* the state of the escalation manager
esc == <<active_escalations, now, lastOp, calls, sched, api>>

\* the state of the notification manager
notif == <<email_service, sms_service, clock, accepted, lastSend, lastDispatch,
           sends, advances>>

\* the two threads, for the calls that run as one step
threads == <<sched, api>>

EmptyStore == [a \in {} |-> a]

\* dict[key] = value
DictSet(dict, key, value) == (key :> value) @@ dict

\* ------------------------------------------------------ helper functions
\* _send_level_notifications: demo mode, counts one e-mail per contact and
\* one SMS per contact with a phone; nothing in the loop body can raise.
SendLevelNotifications(level) ==
    LET contacts == contact_groups[level]
    IN [emails_sent |-> Len(contacts),
        sms_sent |-> Cardinality({i \in 1..Len(contacts) : contacts[i].phone}),
        total_contacts |-> Len(contacts),
        failed_contacts |-> <<>>]

\* the entry appended to notifications_sent
DispatchRecord(level, t) ==
    [level |-> level, timestamp |-> t, result |-> SendLevelNotifications(level)]

\* mutant: the level after the next one
GetNextLevel_SkipsOne(current_level) ==
    IF \E i \in 1..Len(level_order) : level_order[i] = current_level
    THEN LET current_index == LevelIndex(current_level)
         IN IF current_index + 1 < Len(level_order)
            THEN level_order[current_index + 2]
            ELSE IF current_index < Len(level_order)
            THEN level_order[current_index + 1]
            ELSE None
    ELSE None

\* mutant: level 3 has no next level
GetNextLevel_StopsAtLevel3(current_level) ==
    IF \E i \in 1..Len(level_order) : level_order[i] = current_level
    THEN LET current_index == LevelIndex(current_level)
         IN IF current_index + 1 < Len(level_order)
            THEN level_order[current_index + 1]
            ELSE None
    ELSE None

\* _get_next_level
GetNextLevel(current_level) ==
    IF \E i \in 1..Len(level_order) : level_order[i] = current_level
    THEN LET current_index == LevelIndex(current_level)
         IN IF current_index < Len(level_order)
            THEN level_order[current_index + 1]
            ELSE None
    ELSE None

\* mutant: the level and the time are set, no dispatch record is appended
EscalateToLevel_NoDispatchRecord(escalation, level, t) ==
    [escalation EXCEPT !.current_level = level, !.last_escalated_at = t]

\* mutant: the level is advanced and notified, last_escalated_at is left alone
EscalateToLevel_KeepsTimestamp(escalation, level, t) ==
    [escalation EXCEPT !.current_level = level,
                       !.notifications_sent = Append(@, DispatchRecord(level, t))]

\* _escalate_to_level
EscalateToLevel(escalation, level, t) ==
    [escalation EXCEPT !.current_level = level,
                       !.last_escalated_at = t,
                       !.notifications_sent = Append(@, DispatchRecord(level, t))]

\* mutant: the fan-out list misses a level
CriticalLevels_SkipsLevel3 == <<LEVEL_2, LEVEL_4>>

\* the levels _escalate_critical_alert notifies, in order
CriticalLevels == <<LEVEL_2, LEVEL_3, LEVEL_4>>

\* mutant: the fan-out notifies every level but leaves current_level alone
EscalateCriticalAlert_KeepsLevel(escalation, t) ==
    [escalation EXCEPT
        !.notifications_sent =
            @ \o [i \in 1..Len(CriticalLevels) |-> DispatchRecord(CriticalLevels[i], t)]]

\* _escalate_critical_alert
EscalateCriticalAlert(escalation, t) ==
    [escalation EXCEPT
        !.notifications_sent =
            @ \o [i \in 1..Len(CriticalLevels) |-> DispatchRecord(CriticalLevels[i], t)],
        !.current_level = LEVEL_4]

\* mutant: an unknown or missing severity falls back to the 'high' rule
RuleFor_DefaultsToHigh(alert) ==
    IF alert.severity \in DOMAIN escalation_rules
    THEN escalation_rules[alert.severity]
    ELSE escalation_rules["high"]

\* rule lookup of initiate_escalation, with the 'medium' default
RuleFor(alert) ==
    LET severity == IF alert.severity = Absent THEN "medium" ELSE alert.severity
    IN IF severity \in DOMAIN escalation_rules
       THEN escalation_rules[severity]
       ELSE escalation_rules["medium"]

\* the record initiate_escalation leaves in the store
NewEscalation(alert, t) ==
    LET rule == RuleFor(alert)
        escalation == [alert_id |-> alert.id,
                       current_level |-> rule.initial_level,
                       rule |-> rule,
                       started_at |-> t,
                       last_escalated_at |-> t,
                       acknowledgments |-> <<>>,
                       notifications_sent |-> <<DispatchRecord(rule.initial_level, t)>>,
                       is_resolved |-> FALSE]
    IN IF alert.severity = "critical"
       THEN EscalateCriticalAlert(escalation, t)
       ELSE escalation

\* initiate_escalation: the store after the call
InitiateStore(store, alert, t) == DictSet(store, alert.id, NewEscalation(alert, t))

\* initiate_escalation: the returned dictionary
InitiateResult(alert) ==
    LET rule == RuleFor(alert)
    IN [escalation_id |-> alert.id,
        initial_level |-> rule.initial_level,
        contacts_notified |-> Len(contact_groups[rule.initial_level]),
        next_escalation_in |-> rule.escalation_time_minutes,
        status |-> "initiated"]

\* mutant: the timeout alone decides, recorded acknowledgments are not read
ShouldEscalate_IgnoresAcks(escalation, current_time) ==
    LET rule == escalation.rule
        time_since_last == current_time - escalation.last_escalated_at
    IN /\ time_since_last >= rule.escalation_time_minutes
       /\ escalation.current_level # rule.max_level

\* mutant: an acknowledgment holds back every rule, also one that does not
\* require it
ShouldEscalate_AcksBlockEveryRule(escalation, current_time) ==
    LET rule == escalation.rule
        time_since_last == current_time - escalation.last_escalated_at
    IN /\ time_since_last >= rule.escalation_time_minutes
       /\ escalation.current_level # rule.max_level
       /\ escalation.acknowledgments = <<>>

\* mutant: the max level is not tested
ShouldEscalate_IgnoresMaxLevel(escalation, current_time) ==
    LET rule == escalation.rule
        time_since_last == current_time - escalation.last_escalated_at
    IN /\ time_since_last >= rule.escalation_time_minutes
       /\ \/ rule.require_acknowledgment /\ escalation.acknowledgments = <<>>
          \/ ~rule.require_acknowledgment

\* mutant: the elapsed time is not tested
ShouldEscalate_IgnoresTimeout(escalation, current_time) ==
    LET rule == escalation.rule
    IN /\ escalation.current_level # rule.max_level
       /\ \/ rule.require_acknowledgment /\ escalation.acknowledgments = <<>>
          \/ ~rule.require_acknowledgment

\* check_escalations, the test of lines 201-205 and 215: does the pass
\* escalate this unresolved record?
ShouldEscalate(escalation, current_time) ==
    LET rule == escalation.rule
        time_since_last == current_time - escalation.last_escalated_at
    IN /\ time_since_last >= rule.escalation_time_minutes
       /\ escalation.current_level # rule.max_level
       /\ \/ rule.require_acknowledgment /\ escalation.acknowledgments = <<>>
          \/ ~rule.require_acknowledgment

\* check_escalations, the body of the loop for one record
CheckEscalation(escalation, current_time) ==
    IF escalation.is_resolved
    THEN escalation
    ELSE IF ShouldEscalate(escalation, current_time)
         THEN LET next_level == GetNextLevel(escalation.current_level)
              IN IF next_level # None /\ next_level # escalation.current_level
                 THEN EscalateToLevel(escalation, next_level, current_time)
                 ELSE escalation
         ELSE escalation

\* check_escalations: the store after the pass
CheckEscalationsStore(store, current_time) ==
    [a \in DOMAIN store |-> CheckEscalation(store[a], current_time)]

\* check_escalations: the returned updates (one per record escalated)
CheckEscalationsResult(store, current_time) ==
    {[alert_id |-> a,
      escalated_to |-> CheckEscalation(store[a], current_time).current_level,
      timestamp |-> current_time] :
        a \in {x \in DOMAIN store : CheckEscalation(store[x], current_time) # store[x]}}

\* acknowledge_alert: is a record found (self.active_escalations.get)?
AcknowledgeResult(store, alert_id) == alert_id \in DOMAIN store

\* mutant: the acknowledgment is dated with the start of the escalation
AcknowledgeStore_StampsStart(store, alert_id, acknowledged_by, t) ==
    IF alert_id \notin DOMAIN store
    THEN store
    ELSE [store EXCEPT ![alert_id].acknowledgments =
              Append(@, [acknowledged_by |-> acknowledged_by,
                         acknowledged_at |-> store[alert_id].started_at,
                         level |-> store[alert_id].current_level])]

\* acknowledge_alert: the store after the call
AcknowledgeStore(store, alert_id, acknowledged_by, t) ==
    IF alert_id \notin DOMAIN store
    THEN store
    ELSE [store EXCEPT ![alert_id].acknowledgments =
              Append(@, [acknowledged_by |-> acknowledged_by,
                         acknowledged_at |-> t,
                         level |-> store[alert_id].current_level])]

\* resolve_escalation: is a record found?
ResolveResult(store, alert_id) == alert_id \in DOMAIN store

\* mutant: no lookup guard, the resolution is written under the key anyway
ResolveStore_NoGuard(store, alert_id, resolved_by, t) ==
    DictSet(store, alert_id,
            ("resolved_at" :> t) @@ ("resolved_by" :> resolved_by)
                @@ (IF alert_id \in DOMAIN store
                    THEN [store[alert_id] EXCEPT !.is_resolved = TRUE]
                    ELSE [is_resolved |-> TRUE]))

\* resolve_escalation: the store after the call
ResolveStore(store, alert_id, resolved_by, t) ==
    IF alert_id \notin DOMAIN store
    THEN store
    ELSE [store EXCEPT ![alert_id] =
              ("resolved_at" :> t) @@ ("resolved_by" :> resolved_by)
                  @@ [@ EXCEPT !.is_resolved = TRUE]]

\* ------------------------------------------------- notifications.py
\* NotificationConfig.rate_limit_per_minute
rate_limit_per_minute == 10

\* EmailNotificationService.__init__, SMSNotificationService.__init__
NewService(t) == [sent_count |-> 0, last_reset |-> t]

\* timedelta.seconds of a non-negative timedelta of d seconds: the seconds
\* left over after the whole days
TimedeltaSeconds(d) == d % 86400

\* _check_rate_limit: the service after the call, and the returned boolean
CheckRateLimit(service, t) ==
    LET checked == IF TimedeltaSeconds(t - service.last_reset) >= 60
                   THEN [sent_count |-> 0, last_reset |-> t]
                   ELSE service
    IN [service |-> checked,
        ret |-> checked.sent_count < rate_limit_per_minute]

\* send_email: smtp is what the SMTP session of lines 90-93 does, "ok" or
\* "raises"
SendEmail(service, t, smtp) ==
    LET check == CheckRateLimit(service, t)
    IN IF ~check.ret
       THEN [service |-> check.service, ret |-> FALSE, outcome |-> "rate_limited"]
       ELSE IF smtp = "raises"
       THEN [service |-> check.service, ret |-> FALSE, outcome |-> "failed"]
       ELSE [service |-> [check.service EXCEPT !.sent_count = @ + 1],
             ret |-> TRUE, outcome |-> "sent"]

\* send_sms
SendSms(service, t) ==
    LET check == CheckRateLimit(service, t)
    IN IF ~check.ret
       THEN [service |-> check.service, ret |-> FALSE, outcome |-> "rate_limited"]
       ELSE [service |-> [check.service EXCEPT !.sent_count = @ + 1],
             ret |-> TRUE, outcome |-> "sent"]

\* send_alert_email: the subject line calls .upper() on the severity, which
\* raises on a severity of None; then send_email
SendAlertEmail(service, alert, t, smtp) ==
    IF alert.severity = None
    THEN [service |-> service, ret |-> FALSE, outcome |-> "raised"]
    ELSE SendEmail(service, t, smtp)

\* send_alert_sms: .upper() on the severity; then send_sms
SendAlertSms(service, alert, t) ==
    IF alert.severity = None
    THEN [service |-> service, ret |-> FALSE, outcome |-> "raised"]
    ELSE SendSms(service, t)

\* send_alert_webhook, send_webhook: the payload is logged, nothing is posted
SendAlertWebhook(alert) == [ret |-> TRUE, outcome |-> "sent"]

\* the results dictionary send_alert_notifications starts from
EmptyResults ==
    [email_sent |-> <<>>, sms_sent |-> <<>>, webhooks_sent |-> <<>>,
     failed_notifications |-> <<>>]

\* the key of results that lists the sent targets of a channel type
SentKey(type) ==
    CASE type = "email" -> "email_sent"
      [] type = "sms" -> "sms_sent"
      [] type = "webhook" -> "webhooks_sent"

\* the condition `target and service.send_alert_X(alert, target)` of one
\* branch of lines 351-369: without a target no adapter is called
AdapterCall(acc, channel, alert, t, smtp) ==
    IF channel.target = None
    THEN [email_service |-> acc.email_service, sms_service |-> acc.sms_service,
          ret |-> FALSE, outcome |-> "no_target"]
    ELSE CASE channel.type = "email" ->
                LET r == SendAlertEmail(acc.email_service, alert, t, smtp)
                IN [email_service |-> r.service, sms_service |-> acc.sms_service,
                    ret |-> r.ret, outcome |-> r.outcome]
           [] channel.type = "sms" ->
                LET r == SendAlertSms(acc.sms_service, alert, t)
                IN [email_service |-> acc.email_service, sms_service |-> r.service,
                    ret |-> r.ret, outcome |-> r.outcome]
           [] channel.type = "webhook" ->
                LET r == SendAlertWebhook(alert)
                IN [email_service |-> acc.email_service,
                    sms_service |-> acc.sms_service,
                    ret |-> r.ret, outcome |-> r.outcome]

\* mutant: no except clause, an exception of the adapter leaves the function
DispatchChannel_NoCatch(acc, user_id, channel, alert, t, smtp) ==
    LET r == AdapterCall(acc, channel, alert, t, smtp)
    IN [email_service |-> r.email_service,
        sms_service |-> r.sms_service,
        results |->
            IF r.outcome = "raised"
            THEN acc.results
            ELSE IF r.ret
            THEN [acc.results EXCEPT ![SentKey(channel.type)] =
                     Append(@, channel.target)]
            ELSE [acc.results EXCEPT !.failed_notifications =
                     Append(@, <<channel.type, channel.target>>)],
        attempts |-> Append(acc.attempts,
                            [user_id |-> user_id, type |-> channel.type,
                             outcome |-> r.outcome]),
        raised |-> r.outcome = "raised"]

\* lines 348-373: the try block for one enabled channel and its except clause
DispatchChannel(acc, user_id, channel, alert, t, smtp) ==
    LET r == AdapterCall(acc, channel, alert, t, smtp)
    IN [email_service |-> r.email_service,
        sms_service |-> r.sms_service,
        results |->
            IF r.outcome = "raised"
            THEN [acc.results EXCEPT !.failed_notifications =
                     Append(@, <<channel.type, user_id, "error">>)]
            ELSE IF r.ret
            THEN [acc.results EXCEPT ![SentKey(channel.type)] =
                     Append(@, channel.target)]
            ELSE [acc.results EXCEPT !.failed_notifications =
                     Append(@, <<channel.type, channel.target>>)],
        attempts |-> Append(acc.attempts,
                            [user_id |-> user_id, type |-> channel.type,
                             outcome |-> r.outcome]),
        raised |-> FALSE]

\* lines 344-373: the loop over one recipient's channels; an exception that
\* has left the loop body ends the call
RECURSIVE DispatchChannels(_, _, _, _, _, _)
DispatchChannels(acc, user_id, channels, alert, t, smtp) ==
    IF channels = <<>> \/ acc.raised
    THEN acc
    ELSE LET channel == Head(channels)
             next == IF ~channel.enabled
                     THEN acc
                     ELSE DispatchChannel(acc, user_id, channel, alert, t, smtp)
         IN DispatchChannels(next, user_id, Tail(channels), alert, t, smtp)

\* lines 335-373: the loop over the recipients
RECURSIVE DispatchUsers(_, _, _, _, _)
DispatchUsers(acc, user_preferences, alert, t, smtp) ==
    IF user_preferences = <<>> \/ acc.raised
    THEN acc
    ELSE LET user_pref == Head(user_preferences)
             next == IF alert.severity \notin user_pref.severity_filter
                     THEN acc
                     ELSE DispatchChannels(acc, user_pref.user_id,
                                           user_pref.channels, alert, t, smtp)
         IN DispatchUsers(next, Tail(user_preferences), alert, t, smtp)

\* send_alert_notifications: the two services after the call, the returned
\* results, the channels the loop reached and whether an exception left it
SendAlertNotifications(email, sms, alert, user_preferences, t, smtp) ==
    DispatchUsers([email_service |-> email, sms_service |-> sms,
                   results |-> EmptyResults, attempts |-> <<>>,
                   raised |-> FALSE],
                  user_preferences, alert, t, smtp)

\* no send call yet
NoSend == [adapter |-> None, ret |-> FALSE, outcome |-> None]

\* no send_alert_notifications call yet
NoDispatch == [op |-> None]

\* ------------------------------------------ backend/app/routers/alerts.py
\* f"alert-{n:03d}"
AlertIdOf(n) ==
    "alert-" \o (IF n < 10 THEN "00" ELSE IF n < 100 THEN "0" ELSE "") \o ToString(n)

\* AlertSeverity
ApiSeverities == {"low", "medium", "high", "critical"}

\* SAMPLE_ALERTS, loaded into ALERTS_DB when the module is imported
SampleAlerts ==
    (AlertIdOf(1) :> [id |-> AlertIdOf(1), severity |-> "high", status |-> "active"])
    @@ (AlertIdOf(2) :> [id |-> AlertIdOf(2), severity |-> "medium",
                         status |-> "acknowledged"])
    @@ (AlertIdOf(3) :> [id |-> AlertIdOf(3), severity |-> "critical",
                         status |-> "resolved"])

\* create_alert, line 239: the id of the new alert
NewAlertId(db) == AlertIdOf(Cardinality(DOMAIN db) + 1)

\* create_alert, lines 241-249: the new alert
NewAlert(db, severity, t) ==
    [id |-> NewAlertId(db), severity |-> severity, status |-> "active",
     created_at |-> t]

\* del ALERTS_DB[alert_id]
DictDel(dict, key) == [k \in DOMAIN dict \ {key} |-> dict[k]]

\* --------------------------------------------------------------- actions
NoOp(op) == [op |-> op, alert_id |-> None, ret |-> None]

\* no check_escalations pass is running
SchedIdle == [pc |-> "idle"]

\* no acknowledge_alert call is running and none has returned yet
ApiIdle == [pc |-> "idle", alert_id |-> None, returned |-> FALSE, ret |-> FALSE]

Init ==
    /\ active_escalations = EmptyStore
    /\ now = 0
    /\ lastOp = NoOp("none")
    /\ calls = 0
    /\ sched = SchedIdle
    /\ api = ApiIdle
    /\ email_service = NewService(0)
    /\ sms_service = NewService(0)
    /\ clock = 0
    /\ accepted = [email |-> <<>>, sms |-> <<>>]
    /\ lastSend = NoSend
    /\ lastDispatch = NoDispatch
    /\ sends = 0
    /\ advances = 0
    /\ ALERTS_DB = SampleAlerts

\* one call initiate_escalation(alert)
InitiateCall(alert) ==
    /\ calls < MaxCalls
    /\ calls' = calls + 1
    /\ active_escalations' = InitiateStore(active_escalations, alert, now)
    /\ lastOp' = [op |-> "initiate", alert_id |-> alert.id,
                  severity |-> alert.severity, ret |-> InitiateResult(alert)]
    /\ UNCHANGED <<ALERTS_DB, notif, now, threads>>

\* initiate_escalation(alert)
Initiate == \E alert \in Alerts : InitiateCall(alert)

\* check_escalations()
Tick ==
    /\ active_escalations' = CheckEscalationsStore(active_escalations, now)
    /\ lastOp' = [op |-> "tick", alert_id |-> None,
                  ret |-> CheckEscalationsResult(active_escalations, now)]
    /\ UNCHANGED <<ALERTS_DB, notif, now, calls, threads>>

\* one call acknowledge_alert(alert_id, acknowledged_by)
AcknowledgeCall(alert_id, acknowledged_by) ==
    /\ calls < MaxCalls
    /\ calls' = calls + 1
    /\ active_escalations' =
           AcknowledgeStore(active_escalations, alert_id, acknowledged_by, now)
    /\ lastOp' = [op |-> "acknowledge", alert_id |-> alert_id,
                  ret |-> AcknowledgeResult(active_escalations, alert_id)]
    /\ UNCHANGED <<ALERTS_DB, notif, now, threads>>

\* acknowledge_alert(alert_id, acknowledged_by)
Acknowledge ==
    \E alert_id \in AlertIds, acknowledged_by \in Users :
        AcknowledgeCall(alert_id, acknowledged_by)

\* one call resolve_escalation(alert_id, resolved_by)
ResolveCall(alert_id, resolved_by) ==
    /\ calls < MaxCalls
    /\ calls' = calls + 1
    /\ active_escalations' =
           ResolveStore(active_escalations, alert_id, resolved_by, now)
    /\ lastOp' = [op |-> "resolve", alert_id |-> alert_id,
                  ret |-> ResolveResult(active_escalations, alert_id)]
    /\ UNCHANGED <<ALERTS_DB, notif, now, threads>>

\* resolve_escalation(alert_id, resolved_by)
Resolve ==
    \E alert_id \in AlertIds, resolved_by \in Users :
        ResolveCall(alert_id, resolved_by)

\* d minutes pass between two calls, up to the time limit
AdvanceBy(d, limit) ==
    /\ now + d <= limit
    /\ now' = now + d
    /\ lastOp' = NoOp("advance")
    /\ UNCHANGED <<ALERTS_DB, notif, active_escalations, calls, threads>>

\* time passes between two calls
Advance == \E d \in ClockSteps : AdvanceBy(d, MaxTime)

Next == Initiate \/ Tick \/ Acknowledge \/ Resolve \/ Advance

Spec == Init /\ [][Next]_vars

\* ------------------------------------------------ one alert, a longer run
\* the same calls for a single alert, over twice the longest timeout
MaxLongTime == 120
OneAlertId == "a1"

InitiateOne == \E alert \in Alerts : alert.id = OneAlertId /\ InitiateCall(alert)

AcknowledgeOne == \E acknowledged_by \in Users : AcknowledgeCall(OneAlertId, acknowledged_by)

ResolveOne == \E resolved_by \in Users : ResolveCall(OneAlertId, resolved_by)

AdvanceLong == \E d \in ClockSteps : AdvanceBy(d, MaxLongTime)

NextLong == InitiateOne \/ Tick \/ AcknowledgeOne \/ ResolveOne \/ AdvanceLong

SpecLong == Init /\ [][NextLong]_vars

\* ------------------------------------- contact notifications that fail
\* the try block of _send_level_notifications with its except clause: for
\* the contacts named in failing the body raises before the counters are
\* incremented, the except clause lists the contact's name
SendLevelNotificationsWith(level, failing) ==
    LET contacts == contact_groups[level]
        notified == SelectSeq(contacts, LAMBDA c : c.name \notin failing)
        failed == SelectSeq(contacts, LAMBDA c : c.name \in failing)
    IN [emails_sent |-> Len(notified),
        sms_sent |-> Cardinality({i \in 1..Len(notified) : notified[i].phone}),
        total_contacts |-> Len(contacts),
        failed_contacts |-> [i \in 1..Len(failed) |-> failed[i].name]]

\* mutant: when no contact of the level could be notified the record is
\* left as it was
EscalateToLevelWith_AbortsOnFailure(escalation, level, t, failing) ==
    LET result == SendLevelNotificationsWith(level, failing)
    IN IF result.emails_sent = 0
       THEN escalation
       ELSE [escalation EXCEPT
                !.current_level = level,
                !.last_escalated_at = t,
                !.notifications_sent =
                    Append(@, [level |-> level, timestamp |-> t, result |-> result])]

\* _escalate_to_level, the notifications failing for the contacts in failing
EscalateToLevelWith(escalation, level, t, failing) ==
    LET result == SendLevelNotificationsWith(level, failing)
    IN [escalation EXCEPT
           !.current_level = level,
           !.last_escalated_at = t,
           !.notifications_sent =
               Append(@, [level |-> level, timestamp |-> t, result |-> result])]

\* check_escalations, the body of the loop for one record
CheckEscalationWith(escalation, current_time, failing) ==
    IF escalation.is_resolved
    THEN escalation
    ELSE IF ShouldEscalate(escalation, current_time)
         THEN LET next_level == GetNextLevel(escalation.current_level)
              IN IF next_level # None /\ next_level # escalation.current_level
                 THEN EscalateToLevelWith(escalation, next_level, current_time,
                                          failing)
                 ELSE escalation
         ELSE escalation

\* the names of the contacts of one level
ContactNames(level) ==
    {contact_groups[level][i].name : i \in 1..Len(contact_groups[level])}

\* the contacts a pass fails to notify: none, one or all of a level
FailingSets == UNION {SUBSET ContactNames(level) : level \in DOMAIN contact_groups}

\* check_escalations() while notifying the contacts in failing raises
TickFailing ==
    \E failing \in FailingSets :
       /\ active_escalations' =
              [a \in DOMAIN active_escalations |->
                  CheckEscalationWith(active_escalations[a], now, failing)]
       /\ lastOp' = [op |-> "tick", alert_id |-> None,
                     ret |-> {[alert_id |-> a,
                               escalated_to |-> active_escalations'[a].current_level,
                               timestamp |-> now] :
                              a \in {x \in DOMAIN active_escalations :
                                        active_escalations'[x] # active_escalations[x]}}]
       /\ UNCHANGED <<ALERTS_DB, notif, now, calls, threads>>

NextFail == InitiateOne \/ TickFailing \/ AcknowledgeOne \/ ResolveOne \/ Advance

SpecFail == Init /\ [][NextFail]_vars

\* -------------------------------------- one alert, the scheduler polling
\* The clock runs without end. Only differences between the clock and the
\* stored times are read (check_escalations, time_since_last), and they are
\* compared with timeouts of at most MaxLiveTime minutes: once the clock has
\* reached MaxLiveTime it is held there and every stored time is moved back
\* instead, an elapsed time beyond MaxLiveTime being kept as MaxLiveTime.
MaxLiveTime == 60

\* a stored time after d more minutes, the clock held
ShiftTime(t, d) == IF t >= d THEN t - d ELSE 0

\* the times of one record moved back by d minutes
ShiftRecord(e, d) ==
    LET sent == e.notifications_sent
        acks == e.acknowledgments
        shifted ==
            [e EXCEPT
                !.started_at = ShiftTime(@, d),
                !.last_escalated_at = ShiftTime(@, d),
                !.notifications_sent =
                    [i \in 1..Len(sent) |->
                        [sent[i] EXCEPT !.timestamp = ShiftTime(@, d)]],
                !.acknowledgments =
                    [i \in 1..Len(acks) |->
                        [acks[i] EXCEPT !.acknowledged_at = ShiftTime(@, d)]]]
    IN IF "resolved_at" \in DOMAIN e
       THEN [shifted EXCEPT !.resolved_at = ShiftTime(@, d)]
       ELSE shifted

\* d minutes pass between two calls
AdvanceLive ==
    \E d \in ClockSteps :
       /\ IF now + d <= MaxLiveTime
          THEN /\ now' = now + d
               /\ UNCHANGED active_escalations
          ELSE /\ now' = now
               /\ active_escalations' =
                      [a \in DOMAIN active_escalations |->
                          ShiftRecord(active_escalations[a], d)]
       /\ lastOp' = NoOp("advance")
       /\ UNCHANGED <<ALERTS_DB, notif, calls, threads>>

\* one call whose returned value the caller drops
LiveCall(op, store) ==
    /\ calls < MaxCalls
    /\ calls' = calls + 1
    /\ active_escalations' = store
    /\ lastOp' = NoOp(op)
    /\ UNCHANGED <<ALERTS_DB, notif, now, threads>>

\* initiate_escalation(alert)
InitiateLive ==
    \E alert \in Alerts :
       /\ alert.id = OneAlertId
       /\ LiveCall("initiate", InitiateStore(active_escalations, alert, now))

\* acknowledge_alert(alert_id, acknowledged_by)
AcknowledgeLive ==
    \E acknowledged_by \in Users :
       LiveCall("acknowledge",
                AcknowledgeStore(active_escalations, OneAlertId, acknowledged_by, now))

\* resolve_escalation(alert_id, resolved_by)
ResolveLive ==
    \E resolved_by \in Users :
       LiveCall("resolve",
                ResolveStore(active_escalations, OneAlertId, resolved_by, now))

\* check_escalations(), called by the scheduler, which drops the updates
TickLive ==
    /\ active_escalations' = CheckEscalationsStore(active_escalations, now)
    /\ lastOp' = NoOp("tick")
    /\ UNCHANGED <<ALERTS_DB, notif, now, calls, threads>>

NextLive == InitiateLive \/ TickLive \/ AcknowledgeLive \/ ResolveLive \/ AdvanceLive

\* the scheduler keeps calling check_escalations and time keeps passing
SpecLive == Init /\ [][NextLive]_vars /\ WF_vars(TickLive) /\ WF_vars(AdvanceLive)

\* ------------------------------------- one high-severity alert, by minutes
\* the calls for one alert of severity high and one user, on a 4-minute clock
MaxScenarioTime == 40
ScenarioSteps == {4}
ScenarioAlert == [id |-> OneAlertId, severity |-> "high"]
ScenarioUser == "u1"

InitiateHigh == InitiateCall(ScenarioAlert)

AcknowledgeHigh == AcknowledgeCall(OneAlertId, ScenarioUser)

ResolveHigh == ResolveCall(OneAlertId, ScenarioUser)

AdvanceScenario == \E d \in ScenarioSteps : AdvanceBy(d, MaxScenarioTime)

NextScenario == InitiateHigh \/ Tick \/ AcknowledgeHigh \/ ResolveHigh \/ AdvanceScenario

SpecScenario == Init /\ [][NextScenario]_vars

\* ------------------------------------------- interleaved calls (threads)
(***************************************************************************)
(* check_escalations and acknowledge_alert take no lock.  Here one thread  *)
(* runs check_escalations and another acknowledge_alert, each one          *)
(* statement at a time; a step is a group of statements that reads or      *)
(* writes the shared record once.  The clock may move between two steps,   *)
(* so each utcnow() reads the time of its own step.  initiate_escalation   *)
(* runs as one step, and only while no other call is in progress.          *)
(***************************************************************************)
\* how many initiate and acknowledge calls a run with threads makes in all
MaxConcCalls == 2

\* lines 190-193: current_time, and the snapshot list(items()) of the store
TickStart ==
    /\ sched.pc = "idle"
    /\ sched' = [pc |-> "loop", current_time |-> now,
                 items |-> DOMAIN active_escalations]
    /\ UNCHANGED <<ALERTS_DB, notif, active_escalations, now, lastOp, calls, api>>

\* line 193: the next record of the snapshot, or line 226 when it is used up
TickLoop ==
    /\ sched.pc = "loop"
    /\ \/ /\ sched.items = {}
          /\ sched' = SchedIdle
       \/ \E a \in sched.items :
             sched' = [pc |-> "check_resolved", current_time |-> sched.current_time,
                       items |-> sched.items \ {a}, alert_id |-> a]
    /\ UNCHANGED <<ALERTS_DB, notif, active_escalations, now, lastOp, calls, api>>

\* lines 194-195
TickCheckResolved ==
    /\ sched.pc = "check_resolved"
    /\ sched' = [sched EXCEPT !.pc =
                    IF active_escalations[sched.alert_id].is_resolved
                    THEN "loop" ELSE "check_needed"]
    /\ UNCHANGED <<ALERTS_DB, notif, active_escalations, now, lastOp, calls, api>>

\* lines 197-205 and 215: the timeout, max level and acknowledgment tests
TickCheckNeeded ==
    /\ sched.pc = "check_needed"
    /\ sched' = [sched EXCEPT !.pc =
                    IF ShouldEscalate(active_escalations[sched.alert_id],
                                      sched.current_time)
                    THEN "next_level" ELSE "loop"]
    /\ UNCHANGED <<ALERTS_DB, notif, active_escalations, now, lastOp, calls, api>>

\* lines 207-209 (217-219), then lines 294-296 of _escalate_to_level
TickNextLevel ==
    /\ sched.pc = "next_level"
    /\ LET current_level == active_escalations[sched.alert_id].current_level
           next_level == GetNextLevel(current_level)
       IN sched' = IF next_level # None /\ next_level # current_level
                   THEN ("next_level" :> next_level)
                            @@ [sched EXCEPT !.pc = "set_level"]
                   ELSE [sched EXCEPT !.pc = "loop"]
    /\ UNCHANGED <<ALERTS_DB, notif, active_escalations, now, lastOp, calls, api>>

\* line 298
TickSetLevel ==
    /\ sched.pc = "set_level"
    /\ active_escalations' =
           [active_escalations EXCEPT ![sched.alert_id].current_level = sched.next_level]
    /\ sched' = [sched EXCEPT !.pc = "set_last"]
    /\ UNCHANGED <<ALERTS_DB, notif, now, lastOp, calls, api>>

\* line 299
TickSetLast ==
    /\ sched.pc = "set_last"
    /\ active_escalations' =
           [active_escalations EXCEPT ![sched.alert_id].last_escalated_at = now]
    /\ sched' = [sched EXCEPT !.pc = "append"]
    /\ UNCHANGED <<ALERTS_DB, notif, now, lastOp, calls, api>>

\* lines 300-304, and 210-214 back in the loop
TickAppend ==
    /\ sched.pc = "append"
    /\ active_escalations' =
           [active_escalations EXCEPT ![sched.alert_id].notifications_sent =
               Append(@, DispatchRecord(sched.next_level, now))]
    /\ sched' = [pc |-> "loop", current_time |-> sched.current_time,
                 items |-> sched.items]
    /\ UNCHANGED <<ALERTS_DB, notif, now, lastOp, calls, api>>

\* lines 233-236: the lookup, and the return of False when it finds nothing
AckStart ==
    \E alert_id \in AlertIds, acknowledged_by \in Users :
        /\ api.pc = "idle"
        /\ calls < MaxConcCalls
        /\ calls' = calls + 1
        /\ api' = IF alert_id \in DOMAIN active_escalations
                  THEN [pc |-> "build", alert_id |-> alert_id,
                        acknowledged_by |-> acknowledged_by,
                        returned |-> FALSE, ret |-> FALSE]
                  ELSE [pc |-> "idle", alert_id |-> alert_id,
                        returned |-> TRUE, ret |-> FALSE]
        /\ UNCHANGED <<ALERTS_DB, notif, active_escalations, now, lastOp, sched>>

\* lines 238-242
AckBuild ==
    /\ api.pc = "build"
    /\ api' = ("acknowledgment" :>
                   [acknowledged_by |-> api.acknowledged_by,
                    acknowledged_at |-> now,
                    level |-> active_escalations[api.alert_id].current_level])
              @@ [api EXCEPT !.pc = "append"]
    /\ UNCHANGED <<ALERTS_DB, notif, active_escalations, now, lastOp, calls, sched>>

\* line 244
AckAppend ==
    /\ api.pc = "append"
    /\ active_escalations' =
           [active_escalations EXCEPT ![api.alert_id].acknowledgments =
               Append(@, api.acknowledgment)]
    /\ api' = [api EXCEPT !.pc = "return"]
    /\ UNCHANGED <<ALERTS_DB, notif, now, lastOp, calls, sched>>

\* lines 246-247
AckReturn ==
    /\ api.pc = "return"
    /\ api' = [pc |-> "idle", alert_id |-> api.alert_id,
               returned |-> TRUE, ret |-> TRUE,
               acknowledgment |-> api.acknowledgment]
    /\ UNCHANGED <<ALERTS_DB, notif, active_escalations, now, lastOp, calls, sched>>

\* initiate_escalation, between the calls of the two threads
InitiateAlone ==
    /\ sched.pc = "idle"
    /\ api.pc = "idle"
    /\ calls < MaxConcCalls
    /\ Initiate

NextConc ==
    \/ InitiateAlone
    \/ Advance
    \/ TickStart \/ TickLoop \/ TickCheckResolved \/ TickCheckNeeded
    \/ TickNextLevel \/ TickSetLevel \/ TickSetLast \/ TickAppend
    \/ AckStart \/ AckBuild \/ AckAppend \/ AckReturn

SpecConc == Init /\ [][NextConc]_vars

\* ------------------------------ check_escalations against resolve_escalation
\* the second thread runs resolve_escalation, one statement at a time

\* lines 258-261: the lookup, and the return of False when it finds nothing
ResStart ==
    \E alert_id \in AlertIds, resolved_by \in Users :
        /\ api.pc = "idle"
        /\ calls < MaxConcCalls
        /\ calls' = calls + 1
        /\ api' = IF alert_id \in DOMAIN active_escalations
                  THEN [pc |-> "set_resolved", op |-> "resolve", alert_id |-> alert_id,
                        resolved_by |-> resolved_by,
                        returned |-> FALSE, ret |-> FALSE]
                  ELSE [pc |-> "idle", op |-> "resolve", alert_id |-> alert_id,
                        returned |-> TRUE, ret |-> FALSE]
        /\ UNCHANGED <<ALERTS_DB, notif, active_escalations, now, lastOp, sched>>

\* line 263
ResSetResolved ==
    /\ api.pc = "set_resolved"
    /\ active_escalations' =
           [active_escalations EXCEPT ![api.alert_id].is_resolved = TRUE]
    /\ api' = [api EXCEPT !.pc = "set_at"]
    /\ UNCHANGED <<ALERTS_DB, notif, now, lastOp, calls, sched>>

\* line 264
ResSetAt ==
    /\ api.pc = "set_at"
    /\ active_escalations' =
           [active_escalations EXCEPT ![api.alert_id] = ("resolved_at" :> now) @@ @]
    /\ api' = [api EXCEPT !.pc = "set_by"]
    /\ UNCHANGED <<ALERTS_DB, notif, now, lastOp, calls, sched>>

\* line 265
ResSetBy ==
    /\ api.pc = "set_by"
    /\ active_escalations' =
           [active_escalations EXCEPT
               ![api.alert_id] = ("resolved_by" :> api.resolved_by) @@ @]
    /\ api' = [api EXCEPT !.pc = "return"]
    /\ UNCHANGED <<ALERTS_DB, notif, now, lastOp, calls, sched>>

\* lines 267-268
ResReturn ==
    /\ api.pc = "return"
    /\ api' = [pc |-> "idle", op |-> "resolve", alert_id |-> api.alert_id,
               returned |-> TRUE, ret |-> TRUE]
    /\ UNCHANGED <<ALERTS_DB, notif, active_escalations, now, lastOp, calls, sched>>

NextConcResolve ==
    \/ InitiateAlone
    \/ Advance
    \/ TickStart \/ TickLoop \/ TickCheckResolved \/ TickCheckNeeded
    \/ TickNextLevel \/ TickSetLevel \/ TickSetLast \/ TickAppend
    \/ ResStart \/ ResSetResolved \/ ResSetAt \/ ResSetBy \/ ResReturn

SpecConcResolve == Init /\ [][NextConcResolve]_vars

\* --------------------------------------------------- the alerts API
\* how many create_alert and delete_alert requests a run makes
MaxApiCalls == 4
Roles == {"admin", "operator"}

\* POST /: create_alert; NOTIFICATION_PREFERENCES is empty, no background
\* task is queued
CreateAlert ==
    \E severity \in ApiSeverities :
        LET new_alert == NewAlert(ALERTS_DB, severity, now)
        IN /\ calls < MaxApiCalls
           /\ calls' = calls + 1
           /\ ALERTS_DB' = DictSet(ALERTS_DB, new_alert.id, new_alert)
           /\ active_escalations' =
                  IF severity \in {"high", "critical"}
                  THEN InitiateStore(active_escalations,
                                     [id |-> new_alert.id, severity |-> severity], now)
                  ELSE active_escalations
           /\ lastOp' = [op |-> "create", alert_id |-> new_alert.id,
                         severity |-> severity, ret |-> new_alert]
           /\ UNCHANGED <<notif, now, threads>>

\* DELETE /{alert_id}: delete_alert, with its 403 and 404 answers
DeleteAlert ==
    \E n \in 1..(MaxApiCalls + 3), role \in Roles :
        LET alert_id == AlertIdOf(n)
            status == IF role # "admin" THEN 403
                      ELSE IF alert_id \notin DOMAIN ALERTS_DB THEN 404
                      ELSE 200
        IN /\ calls < MaxApiCalls
           /\ calls' = calls + 1
           /\ ALERTS_DB' = IF status = 200 THEN DictDel(ALERTS_DB, alert_id)
                           ELSE ALERTS_DB
           /\ lastOp' = [op |-> "delete", alert_id |-> alert_id, ret |-> status]
           /\ UNCHANGED <<notif, active_escalations, now, threads>>

NextApi == CreateAlert \/ DeleteAlert \/ Advance

SpecApi == Init /\ [][NextApi]_vars

\* ------------------------------------------ the rate-limited adapters
\* how many send calls a run makes in all, and how often its clock moves
MaxSends == 12
MaxAdvances == 2
\* the clock of notifications.py moves by half a minute or by a day
SecondSteps == {30, 86400}
SmtpOutcomes == {"ok", "raises"}

\* email_service.send_email(...)
SendEmailCall ==
    \E smtp \in SmtpOutcomes :
        LET r == SendEmail(email_service, clock, smtp)
        IN /\ sends < MaxSends
           /\ sends' = sends + 1
           /\ email_service' = r.service
           /\ accepted' = IF r.ret
                          THEN [accepted EXCEPT !.email = Append(@, clock)]
                          ELSE accepted
           /\ lastSend' = [adapter |-> "email", ret |-> r.ret, outcome |-> r.outcome]
           /\ UNCHANGED <<ALERTS_DB, esc, sms_service, clock, lastDispatch, advances>>

\* sms_service.send_sms(...)
SendSmsCall ==
    LET r == SendSms(sms_service, clock)
    IN /\ sends < MaxSends
       /\ sends' = sends + 1
       /\ sms_service' = r.service
       /\ accepted' = IF r.ret
                      THEN [accepted EXCEPT !.sms = Append(@, clock)]
                      ELSE accepted
       /\ lastSend' = [adapter |-> "sms", ret |-> r.ret, outcome |-> r.outcome]
       /\ UNCHANGED <<ALERTS_DB, esc, email_service, clock, lastDispatch, advances>>

\* time passes between two calls
AdvanceClock ==
    \E d \in SecondSteps :
        /\ advances < MaxAdvances
        /\ advances' = advances + 1
        /\ clock' = clock + d
        /\ UNCHANGED <<ALERTS_DB, esc, email_service, sms_service, accepted, lastSend,
                       lastDispatch, sends>>

NextRate == SendEmailCall \/ SendSmsCall \/ AdvanceClock

SpecRate == Init /\ [][NextRate]_vars

\* ------------------------------------------------------ the dispatcher
\* how many send_alert_notifications calls a run makes; they follow each
\* other within one minute, the clock of notifications.py stands still
MaxDispatches == 6
\* alert.get('severity') of the dispatched alert; None makes the email and
\* SMS adapters raise
DispatchSeverities == {"high", "low", None}

Channel(type, enabled, target) == [type |-> type, enabled |-> enabled, target |-> target]

\* the channels of one recipient: targets present or missing, a disabled
\* channel, the three channel types in several orders
ChannelLists ==
    {<<Channel("email", TRUE, "user@mine"), Channel("sms", TRUE, "+100")>>,
     <<Channel("email", TRUE, None), Channel("webhook", TRUE, "http://hook")>>,
     <<Channel("sms", FALSE, "+100"), Channel("email", TRUE, "user@mine")>>,
     <<Channel("webhook", TRUE, "http://hook"), Channel("sms", TRUE, None)>>}

\* the user_preferences argument: two recipients, the first of whom does not
\* take alerts of severity low
PreferenceLists ==
    {<<[user_id |-> "u1", channels |-> c1, severity_filter |-> {"high", None}],
       [user_id |-> "u2", channels |-> c2,
        severity_filter |-> {"high", "low", None}]>> :
        c1 \in ChannelLists, c2 \in ChannelLists}

\* the times of the accepted email or SMS sends of one dispatch, in order
AcceptedTimes(attempts, type, t) ==
    LET sent == SelectSeq(attempts,
                          LAMBDA a : a.type = type /\ a.outcome = "sent")
    IN [k \in 1..Len(sent) |-> t]

\* notification_manager.send_alert_notifications(alert, user_preferences)
Dispatch ==
    \E severity \in DispatchSeverities, user_preferences \in PreferenceLists,
       smtp \in SmtpOutcomes :
        \E r \in {SendAlertNotifications(email_service, sms_service,
                                         [id |-> OneAlertId, severity |-> severity],
                                         user_preferences, clock, smtp)} :
           /\ sends < MaxDispatches
           /\ sends' = sends + 1
           /\ email_service' = r.email_service
           /\ sms_service' = r.sms_service
           /\ accepted' =
                  [email |-> accepted.email \o AcceptedTimes(r.attempts, "email", clock),
                   sms |-> accepted.sms \o AcceptedTimes(r.attempts, "sms", clock)]
           /\ lastDispatch' = [op |-> "dispatch", severity |-> severity,
                               user_preferences |-> user_preferences,
                               results |-> r.results, attempts |-> r.attempts,
                               raised |-> r.raised]
           /\ UNCHANGED <<ALERTS_DB, esc, clock, lastSend, advances>>

NextDispatch == Dispatch

SpecDispatch == Init /\ [][NextDispatch]_vars

\* ---------------------------------------------------------------- claims
\* this step is one initiate, acknowledge or resolve call for alert a
Called(op, a) == lastOp'.op = op /\ lastOp'.alert_id = a /\ calls' = calls + 1

\* this step is a check_escalations pass
Ticked == lastOp'.op = "tick"

\* the two records agree on the given fields
SameFields(e1, e2, fields) ==
    \A f \in fields :
        /\ f \in DOMAIN e1 <=> f \in DOMAIN e2
        /\ f \in DOMAIN e1 => e1[f] = e2[f]

\* some acknowledgment of the record is dated at or after its last escalation
AckedSinceLastEscalation(e) ==
    \E i \in 1..Len(e.acknowledgments) :
        e.acknowledgments[i].acknowledged_at >= e.last_escalated_at

\* the levels of the dispatch records of a record, in order
SentLevels(e) == [i \in 1..Len(e.notifications_sent) |-> e.notifications_sent[i].level]

\* C1: an initiate call for an alert_id that has an unresolved record fails
\* (does not report 'initiated') and leaves current_level, started_at,
\* last_escalated_at, acknowledgments and notifications_sent of that record
\* as they were.
C1_SecondInitiateFails ==
    [][\A a \in DOMAIN active_escalations :
          (Called("initiate", a) /\ ~active_escalations[a].is_resolved)
          => /\ lastOp'.ret.status # "initiated"
             /\ a \in DOMAIN active_escalations'
             /\ SameFields(active_escalations'[a], active_escalations[a],
                           {"current_level", "started_at", "last_escalated_at",
                            "acknowledgments", "notifications_sent"})]_vars

\* C2: a check_escalations pass leaves current_level, last_escalated_at and
\* notifications_sent of an unresolved record alone when its rule requires
\* acknowledgment, an acknowledgment was recorded since the last escalation
\* and the timeout has been reached (exactly or exceeded).
C2_AckBlocksAdvance ==
    [][\A a \in DOMAIN active_escalations :
          LET e == active_escalations[a]
          IN (/\ Ticked
              /\ ~e.is_resolved
              /\ e.rule.require_acknowledgment
              /\ AckedSinceLastEscalation(e)
              /\ now - e.last_escalated_at >= e.rule.escalation_time_minutes)
             => /\ a \in DOMAIN active_escalations'
                /\ SameFields(active_escalations'[a], e,
                              {"current_level", "last_escalated_at",
                               "notifications_sent"})]_vars

\* C2 witness: a pass has just run exactly at the timeout of an acknowledged,
\* unresolved record below its max level, and the record is where it was.
C2_Witness ==
    /\ lastOp.op = "tick"
    /\ \E a \in DOMAIN active_escalations :
          LET e == active_escalations[a]
          IN /\ ~e.is_resolved
             /\ e.rule.require_acknowledgment
             /\ e.current_level # e.rule.max_level
             /\ AckedSinceLastEscalation(e)
             /\ now - e.last_escalated_at = e.rule.escalation_time_minutes

\* C3: with check_escalations and acknowledge_alert interleaved, the pass
\* never applies a level advance to a record of an acknowledgment-requiring
\* rule after acknowledge_alert has appended its acknowledgment to that
\* record and returned true.
C3_AckThenAdvanceNeverInterleave ==
    [][(sched.pc = "set_level" /\ sched'.pc = "set_last")
       => LET e == active_escalations[sched.alert_id]
          IN ~(/\ e.rule.require_acknowledgment
               /\ api.pc = "idle"
               /\ api.returned
               /\ api.ret
               /\ api.alert_id = sched.alert_id
               /\ \E i \in 1..Len(e.acknowledgments) :
                     e.acknowledgments[i] = api.acknowledgment)]_vars

\* C4: the current_level stored for an alert_id never decreases while the
\* escalation is unresolved.
C4_LevelNeverDecreases ==
    [][\A a \in DOMAIN active_escalations :
          ~active_escalations[a].is_resolved
          => /\ a \in DOMAIN active_escalations'
             /\ LevelIndex(active_escalations'[a].current_level)
                    >= LevelIndex(active_escalations[a].current_level)]_vars

\* C5: once a record is resolved, no acknowledge, resolve or tick changes
\* its current_level, last_escalated_at, acknowledgments, notifications_sent,
\* is_resolved, resolved_at or resolved_by.
C5_ResolvedIsFrozen ==
    [][\A a \in DOMAIN active_escalations :
          (/\ active_escalations[a].is_resolved
           /\ \/ Ticked
              \/ \E b \in AlertIds : Called("acknowledge", b) \/ Called("resolve", b))
          => /\ a \in DOMAIN active_escalations'
             /\ SameFields(active_escalations'[a], active_escalations[a],
                           {"current_level", "last_escalated_at", "acknowledgments",
                            "notifications_sent", "is_resolved", "resolved_at",
                            "resolved_by"})]_vars

\* C6: resolve returns true for an active escalation and false for one that
\* is already resolved, whose resolved_at and resolved_by it leaves as the
\* first call set them.
C6_ResolveIdempotent ==
    [][\A a \in DOMAIN active_escalations :
          Called("resolve", a)
          => IF active_escalations[a].is_resolved
             THEN /\ lastOp'.ret = FALSE
                  /\ SameFields(active_escalations'[a], active_escalations[a],
                                {"resolved_at", "resolved_by"})
             ELSE lastOp'.ret = TRUE]_vars

\* C7: acknowledge for an alert_id whose escalation is resolved returns false
\* and appends nothing to its acknowledgments.
C7_AckOnResolvedIsNoOp ==
    [][\A a \in DOMAIN active_escalations :
          (Called("acknowledge", a) /\ active_escalations[a].is_resolved)
          => /\ lastOp'.ret = FALSE
             /\ active_escalations'[a].acknowledgments
                    = active_escalations[a].acknowledgments]_vars

\* C8: acknowledge and resolve for an alert_id without a record return false
\* and leave the whole store as it was.
C8_UnknownAlertIsNoOp ==
    [][\A a \in AlertIds \ DOMAIN active_escalations :
          (Called("acknowledge", a) \/ Called("resolve", a))
          => /\ lastOp'.ret = FALSE
             /\ active_escalations' = active_escalations]_vars

\* C8 witness: resolve has just returned false for an alert_id without a
\* record while another alert has one.
C8_Witness ==
    /\ lastOp.op = "resolve"
    /\ lastOp.alert_id \in AlertIds \ DOMAIN active_escalations
    /\ lastOp.ret = FALSE
    /\ DOMAIN active_escalations # {}

\* C9: initiate with a known severity on an alert_id without a record leaves
\* one unresolved record under that id, at rule.initial_level for low, medium
\* and high and at rule.max_level for critical; no other key is added.
C9_InitiateCreatesAtInitialLevel ==
    [][\A a \in AlertIds \ DOMAIN active_escalations :
          (Called("initiate", a) /\ lastOp'.severity \in DOMAIN escalation_rules)
          => LET rule == escalation_rules[lastOp'.severity]
             IN /\ DOMAIN active_escalations' = DOMAIN active_escalations \cup {a}
                /\ active_escalations'[a].alert_id = a
                /\ ~active_escalations'[a].is_resolved
                /\ active_escalations'[a].current_level =
                       IF lastOp'.severity = "critical"
                       THEN rule.max_level
                       ELSE rule.initial_level]_vars

\* C9 witness: two calls were made, both created a record; the last one was
\* for a critical alert and stands at level 4, the other at its initial level.
C9_Witness ==
    /\ calls = 2
    /\ lastOp.op = "initiate"
    /\ lastOp.severity = "critical"
    /\ DOMAIN active_escalations = AlertIds
    /\ \A a \in AlertIds :
          LET e == active_escalations[a]
          IN /\ ~e.is_resolved
             /\ e.current_level = IF a = lastOp.alert_id
                                  THEN LEVEL_4
                                  ELSE e.rule.initial_level
    /\ \E a \in AlertIds : active_escalations[a].rule.severity = "high"

\* C10: when initiate for a critical alert returns, notifications_sent holds
\* one dispatch record per level, level 1 to level 4 in ascending order, all
\* written in that call.
C10_CriticalFanOut ==
    (lastOp.op = "initiate" /\ lastOp.severity = "critical")
    => LET e == active_escalations[lastOp.alert_id]
       IN /\ SentLevels(e) = <<LEVEL_1, LEVEL_2, LEVEL_3, LEVEL_4>>
          /\ \A i \in 1..Len(e.notifications_sent) :
                e.notifications_sent[i].timestamp = e.started_at

\* C10 witness: a critical initiate has just returned with four dispatch
\* records.
C10_Witness ==
    /\ lastOp.op = "initiate"
    /\ lastOp.severity = "critical"
    /\ Len(active_escalations[lastOp.alert_id].notifications_sent) = 4
    /\ active_escalations[lastOp.alert_id].rule.max_level = LEVEL_4

\* C11: the result of initiate for a critical alert reports the level the
\* fan-out reached, level 4, which is the current_level of the stored record.
C11_ResultReportsFinalLevel ==
    (lastOp.op = "initiate" /\ lastOp.severity = "critical")
    => /\ lastOp.ret.initial_level = LEVEL_4
       /\ lastOp.ret.initial_level = active_escalations[lastOp.alert_id].current_level

\* C15: initiate with an unknown severity, or with none, reports 'initiated'
\* and stores a record under the medium rule: initial level 1, timeout 30
\* minutes, max level 3, acknowledgment required.
C15_UnknownSeverityUsesMedium ==
    (lastOp.op = "initiate" /\ lastOp.severity \notin DOMAIN escalation_rules)
    => /\ lastOp.ret.status = "initiated"
       /\ lastOp.alert_id \in DOMAIN active_escalations
       /\ LET e == active_escalations[lastOp.alert_id]
          IN /\ e.rule.severity = "medium"
             /\ e.rule.initial_level = LEVEL_1
             /\ e.rule.escalation_time_minutes = 30
             /\ e.rule.max_level = LEVEL_3
             /\ e.rule.require_acknowledgment
             /\ e.current_level = LEVEL_1
             /\ ~e.is_resolved

\* C15 witness: initiate has just returned for an alert without a severity.
C15_Witness ==
    /\ lastOp.op = "initiate"
    /\ lastOp.severity = Absent
    /\ active_escalations[lastOp.alert_id].rule.severity = "medium"

\* C16: a check_escalations pass changes nothing in an unresolved record
\* whose current_level is its rule's max_level, whatever time has elapsed.
C16_TickAtMaxLevelIsNoOp ==
    [][\A a \in DOMAIN active_escalations :
          LET e == active_escalations[a]
          IN (Ticked /\ ~e.is_resolved /\ e.current_level = e.rule.max_level)
             => /\ a \in DOMAIN active_escalations'
                /\ active_escalations'[a] = e]_vars

\* C16 witness: a pass has just run over an unresolved record that has been
\* at a max level below level 4 for at least its timeout.
C16_Witness ==
    /\ lastOp.op = "tick"
    /\ \E a \in DOMAIN active_escalations :
          LET e == active_escalations[a]
          IN /\ ~e.is_resolved
             /\ e.current_level = e.rule.max_level
             /\ e.current_level # LEVEL_4
             /\ now - e.last_escalated_at >= e.rule.escalation_time_minutes

\* C17: a check_escalations pass advances no record before its timeout:
\* whenever the pass changes current_level, the time since last_escalated_at
\* is at least rule.escalation_time_minutes.
C17_TickNeverEarly ==
    [][\A a \in DOMAIN active_escalations :
          LET e == active_escalations[a]
          IN (Ticked /\ now - e.last_escalated_at < e.rule.escalation_time_minutes)
             => /\ a \in DOMAIN active_escalations'
                /\ SameFields(active_escalations'[a], e,
                              {"current_level", "last_escalated_at",
                               "notifications_sent"})]_vars

\* C17 witness: a pass has just run before the timeout of an unresolved,
\* unacknowledged record below its max level, which only the time holds back.
C17_Witness ==
    /\ lastOp.op = "tick"
    /\ lastOp.ret = {}
    /\ \E a \in DOMAIN active_escalations :
          LET e == active_escalations[a]
          IN /\ ~e.is_resolved
             /\ e.acknowledgments = <<>>
             /\ e.current_level # e.rule.max_level
             /\ now > e.last_escalated_at
             /\ now - e.last_escalated_at < e.rule.escalation_time_minutes

\* s is t or a proper start of t
IsPrefix(s, t) == Len(s) <= Len(t) /\ \A i \in 1..Len(s) : s[i] = t[i]

\* C19: the acknowledgments and notifications_sent lists of an alert_id only
\* grow at the end: each value is a prefix of every later one.
C19_ListsAppendOnly ==
    [][\A a \in DOMAIN active_escalations :
          /\ a \in DOMAIN active_escalations'
          /\ IsPrefix(active_escalations[a].acknowledgments,
                      active_escalations'[a].acknowledgments)
          /\ IsPrefix(active_escalations[a].notifications_sent,
                      active_escalations'[a].notifications_sent)]_vars

\* the scenario's record after initiate at minute 0
ScenarioAtL1 == NewEscalation(ScenarioAlert, 0)

\* the scenario's record after the pass at minute 16
ScenarioAtL2 ==
    [ScenarioAtL1 EXCEPT !.current_level = LEVEL_2,
                         !.last_escalated_at = 16,
                         !.notifications_sent = Append(@, DispatchRecord(LEVEL_2, 16))]

\* the scenario's record after the acknowledgment at minute 20
ScenarioAcked ==
    [ScenarioAtL2 EXCEPT !.acknowledgments =
        <<[acknowledged_by |-> ScenarioUser, acknowledged_at |-> 20, level |-> LEVEL_2]>>]

\* C12: for a high alert (initial level 1, timeout 15, max level 4, ack
\* required): initiate at minute 0 leaves the record at level 1 with one
\* dispatch record; unacknowledged, the pass at minute 16 advances it to level
\* 2 and appends a level-2 dispatch record; after an acknowledgment at minute
\* 20 the pass at minute 32 changes nothing; resolve at minute 40 returns true
\* and the record ends at level 2, resolved.
C12_HighAlertScenario ==
    [][LET a == OneAlertId
           S == active_escalations
           T == active_escalations'
       IN /\ (Called("initiate", a) /\ now = 0)
             => /\ T[a].rule = EscalationRule("high", LEVEL_1, 15, LEVEL_4, TRUE, TRUE)
                /\ T[a].current_level = LEVEL_1
                /\ Len(T[a].notifications_sent) = 1
                /\ T[a].notifications_sent[1].level = LEVEL_1
                /\ T[a].notifications_sent[1].timestamp = 0
          /\ (Ticked /\ now = 16 /\ a \in DOMAIN S /\ S[a] = ScenarioAtL1)
             => /\ T[a].current_level = LEVEL_2
                /\ T[a].last_escalated_at = 16
                /\ Len(T[a].notifications_sent) = 2
                /\ T[a].notifications_sent[1] = S[a].notifications_sent[1]
                /\ T[a].notifications_sent[2].level = LEVEL_2
                /\ T[a].notifications_sent[2].timestamp = 16
          /\ (Called("acknowledge", a) /\ now = 20 /\ a \in DOMAIN S /\ S[a] = ScenarioAtL2)
             => T[a] = ScenarioAcked
          /\ (Ticked /\ now = 32 /\ a \in DOMAIN S /\ S[a] = ScenarioAcked)
             => T[a] = S[a]
          /\ (Called("resolve", a) /\ now = 40 /\ a \in DOMAIN S /\ S[a] = ScenarioAcked)
             => /\ lastOp'.ret = TRUE
                /\ T[a].current_level = LEVEL_2
                /\ T[a].is_resolved
                /\ SameFields(T[a], S[a], {"started_at", "last_escalated_at",
                                           "acknowledgments", "notifications_sent"})
      ]_vars

\* C12 witness: the scenario has run to its end: resolve has just returned
\* true at minute 40 on the record started at 0, advanced to level 2 at 16 and
\* acknowledged at 20.
C12_Witness ==
    /\ now = 40
    /\ lastOp.op = "resolve"
    /\ lastOp.ret = TRUE
    /\ OneAlertId \in DOMAIN active_escalations
    /\ LET e == active_escalations[OneAlertId]
       IN /\ e.is_resolved
          /\ e.current_level = LEVEL_2
          /\ SameFields(e, ScenarioAcked, {"started_at", "last_escalated_at",
                                           "acknowledgments", "notifications_sent"})

\* C20: with the steps of a check_escalations pass and of resolve_escalation
\* interleaved, once resolve has returned true for an alert the pass no
\* longer writes current_level, last_escalated_at or notifications_sent of
\* that alert's resolved record.
C20_NoTickWriteAfterResolve ==
    [][(/\ api.pc = "idle"
        /\ api.returned
        /\ api.ret
        /\ api.op = "resolve"
        /\ api.alert_id \in DOMAIN active_escalations
        /\ active_escalations[api.alert_id].is_resolved
        /\ sched' # sched)
       => SameFields(active_escalations'[api.alert_id],
                     active_escalations[api.alert_id],
                     {"current_level", "last_escalated_at",
                      "notifications_sent"})]_vars

\* the sends of the sequence of times that fall in the 60 seconds from t on
SendsInWindow(times, t) ==
    Cardinality({i \in 1..Len(times) : times[i] >= t /\ times[i] < t + 60})

\* C13: in every 60-second interval, whatever its alignment, the email
\* adapter and the SMS adapter each accept at most rate_limit_per_minute
\* sends.
C13_AtMostNPerRollingWindow ==
    \A adapter \in {"email", "sms"} :
        \A i \in 1..Len(accepted[adapter]) :
            SendsInWindow(accepted[adapter], accepted[adapter][i])
                <= rate_limit_per_minute

\* C14: after an adapter has rejected a send for the rate limit, the next
\* send passes the rate-limit check whenever at least 60 seconds have gone by
\* since the adapter's last accepted send, however long it was idle.
C14_AcceptsAfterWindowRollsOver ==
    [][\A adapter \in {"email", "sms"} :
          (/\ sends' = sends + 1
           /\ lastSend.adapter = adapter
           /\ lastSend.outcome = "rate_limited"
           /\ lastSend'.adapter = adapter
           /\ accepted[adapter] # <<>>
           /\ clock - accepted[adapter][Len(accepted[adapter])] >= 60)
          => lastSend'.outcome # "rate_limited"]_vars

\* the channels send_alert_notifications has to serve, in order: the enabled
\* channels of the recipients whose severity_filter holds the severity
RECURSIVE Eligible(_, _)
Eligible(severity, user_preferences) ==
    IF user_preferences = <<>>
    THEN <<>>
    ELSE LET user_pref == Head(user_preferences)
             channels == IF severity \in user_pref.severity_filter
                         THEN SelectSeq(user_pref.channels, LAMBDA c : c.enabled)
                         ELSE <<>>
         IN [k \in 1..Len(channels) |->
                [user_id |-> user_pref.user_id, type |-> channels[k].type,
                 target |-> channels[k].target]]
            \o Eligible(severity, Tail(user_preferences))

\* how many members of the sequence satisfy Test
CountSeq(seq, Test(_)) == Cardinality({k \in 1..Len(seq) : Test(seq[k])})

\* C18: send_alert_notifications returns instead of raising, and whatever a
\* send did (returned false, was rate-limited, raised), every enabled channel
\* of every recipient whose filter matches was reached in order, its adapter
\* was called when it has a target, and each channel that was not sent is
\* listed in failed_notifications.
C18_FailuresIsolatedAndCollected ==
    lastDispatch.op = "dispatch"
    => LET E == Eligible(lastDispatch.severity, lastDispatch.user_preferences)
           A == lastDispatch.attempts
           R == lastDispatch.results
       IN /\ ~lastDispatch.raised
          /\ Len(A) = Len(E)
          /\ \A k \in 1..Len(E) :
                /\ A[k].user_id = E[k].user_id
                /\ A[k].type = E[k].type
                /\ (A[k].outcome = "no_target") <=> (E[k].target = None)
          /\ Len(R.failed_notifications)
                = CountSeq(A, LAMBDA a : a.outcome # "sent")
          /\ \A type \in {"email", "sms", "webhook"} :
                Len(R[SentKey(type)])
                    = CountSeq(A, LAMBDA a : a.type = type /\ a.outcome = "sent")

\* C18 witness: in the last dispatch a send to one recipient was rate-limited
\* and a later channel of the other recipient was still sent.
C18_Witness ==
    /\ lastDispatch.op = "dispatch"
    /\ \E i, j \in 1..Len(lastDispatch.attempts) :
          /\ i < j
          /\ lastDispatch.attempts[i].outcome = "rate_limited"
          /\ lastDispatch.attempts[j].outcome = "sent"
          /\ lastDispatch.attempts[i].user_id # lastDispatch.attempts[j].user_id

\* what a step of the escalation manager can change, without the returned
\* values, whose types differ from call to call
observed == <<active_escalations, now, calls, lastOp.op>>

\* the record is unresolved, below its max level and its timeout has passed
TimedOutBelowMax(e, t) ==
    /\ ~e.is_resolved
    /\ e.current_level # e.rule.max_level
    /\ t - e.last_escalated_at >= e.rule.escalation_time_minutes

\* C21: a check_escalations pass that changes a record's current_level moves
\* it to exactly the next level of L1 < L2 < L3 < L4, however many timeouts
\* have elapsed, sets last_escalated_at to the time of the pass and appends
\* exactly one dispatch record, for the new level.
C21_TickAdvancesOneLevel ==
    [][\A a \in DOMAIN active_escalations :
          LET e == active_escalations[a]
              f == active_escalations'[a]
          IN (Ticked /\ f # e)
             => /\ LevelIndex(f.current_level) = LevelIndex(e.current_level) + 1
                /\ f.last_escalated_at = now
                /\ Len(f.notifications_sent) = Len(e.notifications_sent) + 1
                /\ SubSeq(f.notifications_sent, 1, Len(e.notifications_sent))
                       = e.notifications_sent
                /\ f.notifications_sent[Len(f.notifications_sent)].level
                       = f.current_level
                /\ f.notifications_sent[Len(f.notifications_sent)].timestamp = now
                /\ SameFields(f, e, {"alert_id", "rule", "started_at",
                                     "acknowledgments", "is_resolved"})]_observed

\* C21 witness: a pass has just advanced a record by one level, from level 1
\* to level 2, after at least two of its timeouts had elapsed.
C21_Witness ==
    /\ lastOp.op = "tick"
    /\ \E a \in DOMAIN active_escalations :
          LET e == active_escalations[a]
          IN /\ e.current_level = LEVEL_2
             /\ e.last_escalated_at = now
             /\ Len(e.notifications_sent) = 2
             /\ now - e.started_at >= 2 * e.rule.escalation_time_minutes

\* C22: under a rule that does not require acknowledgment (the low rule) a
\* pass advances every unresolved record below its max level whose timeout
\* has passed, also when acknowledgments are recorded on it.
C22_NoAckRuleAdvancesOnTimeout ==
    [][\A a \in DOMAIN active_escalations :
          LET e == active_escalations[a]
          IN (Ticked /\ ~e.rule.require_acknowledgment /\ TimedOutBelowMax(e, now))
             => /\ active_escalations'[a].current_level = GetNextLevel(e.current_level)
                /\ active_escalations'[a].last_escalated_at = now]_observed

\* C22 witness: a pass has just advanced a record of the low rule that
\* carries an acknowledgment.
C22_Witness ==
    /\ lastOp.op = "tick"
    /\ \E a \in DOMAIN active_escalations :
          LET e == active_escalations[a]
          IN /\ ~e.rule.require_acknowledgment
             /\ e.acknowledgments # <<>>
             /\ e.current_level = LEVEL_2
             /\ e.last_escalated_at = now
             /\ e.acknowledgments[1].acknowledged_at < now

\* C23: under a rule with auto_escalate a pass advances every unresolved
\* record below its max level whose timeout has passed, whether or not an
\* acknowledgment is recorded on it.
C23_AutoEscalateAdvancesOnTimeout ==
    [][\A a \in DOMAIN active_escalations :
          LET e == active_escalations[a]
          IN (Ticked /\ e.rule.auto_escalate /\ TimedOutBelowMax(e, now))
             => /\ active_escalations'[a].current_level = GetNextLevel(e.current_level)
                /\ active_escalations'[a].last_escalated_at = now]_observed

\* the test of check_escalations with 'no acknowledgment at or after
\* last_escalated_at' in the place of 'no acknowledgment at all'
ShouldEscalateSince(escalation, current_time) ==
    LET rule == escalation.rule
        time_since_last == current_time - escalation.last_escalated_at
    IN /\ time_since_last >= rule.escalation_time_minutes
       /\ escalation.current_level # rule.max_level
       /\ \/ rule.require_acknowledgment /\ ~AckedSinceLastEscalation(escalation)
          \/ ~rule.require_acknowledgment

\* C27: in every state reached by sequential calls, each acknowledgment of a
\* record whose rule requires acknowledgment is dated at or after the
\* record's last_escalated_at, so that for an unresolved record the test of
\* the pass and the test 'no acknowledgment since last_escalated_at' agree at
\* every time from now on.
C27_AckTestsAgree ==
    \A a \in DOMAIN active_escalations :
        LET e == active_escalations[a]
        IN e.rule.require_acknowledgment
           => /\ \A i \in 1..Len(e.acknowledgments) :
                    e.acknowledgments[i].acknowledged_at >= e.last_escalated_at
              /\ \A t \in now..MaxLongTime :
                    ShouldEscalate(e, t) <=> ShouldEscalateSince(e, t)

\* C27 witness: a record that requires acknowledgment was advanced by a pass
\* and acknowledged afterwards, and a pass has just run over it past its
\* timeout.
C27_Witness ==
    /\ lastOp.op = "tick"
    /\ \E a \in DOMAIN active_escalations :
          LET e == active_escalations[a]
          IN /\ e.rule.require_acknowledgment
             /\ ~e.is_resolved
             /\ e.last_escalated_at > e.started_at
             /\ e.acknowledgments # <<>>
             /\ e.current_level # e.rule.max_level
             /\ now - e.last_escalated_at >= e.rule.escalation_time_minutes

\* C28: in every reachable state each record has
\* rule.initial_level <= current_level <= rule.max_level in the order
\* L1 < L2 < L3 < L4.
C28_LevelWithinRule ==
    \A a \in DOMAIN active_escalations :
        LET e == active_escalations[a]
        IN /\ LevelIndex(e.rule.initial_level) <= LevelIndex(e.current_level)
           /\ LevelIndex(e.current_level) <= LevelIndex(e.rule.max_level)

\* C28 witness: a record of the medium rule stands at its max level 3, put
\* there by passes, and a pass has just run over it a timeout later.
C28_Witness ==
    /\ lastOp.op = "tick"
    /\ \E a \in DOMAIN active_escalations :
          LET e == active_escalations[a]
          IN /\ e.rule.severity = "medium"
             /\ e.current_level = LEVEL_3
             /\ e.current_level = e.rule.max_level
             /\ ~e.is_resolved
             /\ e.acknowledgments = <<>>
             /\ now - e.last_escalated_at >= e.rule.escalation_time_minutes

\* C29: after every completed call each record's notifications_sent is
\* non-empty, its levels start at rule.initial_level, rise by exactly one
\* level from each entry to the next, and end at the record's current_level.
C29_DispatchLevelsAscend ==
    \A a \in DOMAIN active_escalations :
        LET e == active_escalations[a]
            levels == SentLevels(e)
        IN /\ levels # <<>>
           /\ levels[1] = e.rule.initial_level
           /\ \A i \in 1..(Len(levels) - 1) :
                 LevelIndex(levels[i + 1]) = LevelIndex(levels[i]) + 1
           /\ levels[Len(levels)] = e.current_level

\* C29 witness: passes have taken a record through two advances, and its
\* dispatch records read level 1, level 2, level 3.
C29_Witness ==
    /\ lastOp.op = "tick"
    /\ \E a \in DOMAIN active_escalations :
          LET e == active_escalations[a]
          IN /\ SentLevels(e) = <<LEVEL_1, LEVEL_2, LEVEL_3>>
             /\ e.current_level = LEVEL_3
             /\ e.notifications_sent[3].timestamp > e.notifications_sent[2].timestamp

\* what a request to the alerts API can change, without the returned values
observedApi == <<ALERTS_DB, active_escalations, now, calls, lastOp.op>>

\* C30: create_alert assigns an id that is not a key of ALERTS_DB at the time
\* of the call and that has no escalation record, so it overwrites no stored
\* alert and initiates no escalation twice.
C30_CreateAssignsFreshId ==
    [][lastOp'.op = "create" /\ calls' = calls + 1
       => /\ lastOp'.alert_id \notin DOMAIN ALERTS_DB
          /\ lastOp'.alert_id \notin DOMAIN active_escalations]_observedApi

\* the recipients the last dispatch reached none of whose channels was sent
AllChannelsFailed(attempts) ==
    {u \in Users :
        /\ \E k \in 1..Len(attempts) : attempts[k].user_id = u
        /\ \A k \in 1..Len(attempts) :
              attempts[k].user_id = u => attempts[k].outcome # "sent"}

\* C25: failed_notifications of a dispatch has one entry for each recipient
\* whose channels all failed and no entry for a recipient with a channel that
\* was sent.
C25_FailureListNamesAllFailedRecipients ==
    lastDispatch.op = "dispatch"
    => Len(lastDispatch.results.failed_notifications)
           = Cardinality(AllChannelsFailed(lastDispatch.attempts))

\* C26: a check_escalations pass advances every unresolved, unacknowledged
\* record below its max level whose timeout has passed, whichever contacts of
\* the new level cannot be notified: current_level and last_escalated_at are
\* set and one dispatch record is appended, and the failed contacts show only
\* in that record's result.
C26_FailedDispatchStillAdvances ==
    [][\A a \in DOMAIN active_escalations :
          LET e == active_escalations[a]
              f == active_escalations'[a]
              n == Len(e.notifications_sent)
          IN (Ticked /\ TimedOutBelowMax(e, now) /\ e.acknowledgments = <<>>)
             => /\ f.current_level = GetNextLevel(e.current_level)
                /\ f.last_escalated_at = now
                /\ Len(f.notifications_sent) = n + 1
                /\ SubSeq(f.notifications_sent, 1, n) = e.notifications_sent
                /\ f.notifications_sent[n + 1].level = f.current_level
                /\ f.notifications_sent[n + 1].timestamp = now
                /\ LET result == f.notifications_sent[n + 1].result
                   IN /\ result.total_contacts = Len(contact_groups[f.current_level])
                      /\ result.emails_sent + Len(result.failed_contacts)
                             = result.total_contacts
                      /\ \A i \in 1..Len(result.failed_contacts) :
                            result.failed_contacts[i]
                                \in ContactNames(f.current_level)
                /\ SameFields(f, e, {"alert_id", "rule", "started_at",
                                     "acknowledgments", "is_resolved"})]_observed

\* C26 witness: a pass has just advanced a record although no contact of the
\* new level could be notified; the dispatch record lists both as failed.
C26_Witness ==
    /\ lastOp.op = "tick"
    /\ OneAlertId \in DOMAIN active_escalations
    /\ LET e == active_escalations[OneAlertId]
           n == Len(e.notifications_sent)
       IN /\ n >= 2
          /\ e.last_escalated_at = now
          /\ e.notifications_sent[n].level = e.current_level
          /\ e.notifications_sent[n].result.emails_sent = 0
          /\ Len(e.notifications_sent[n].result.failed_contacts)
                 = Len(contact_groups[e.current_level])

\* the record of the one alert is at the max level of its rule, or has been
\* acknowledged or resolved
SettledOne ==
    /\ OneAlertId \in DOMAIN active_escalations
    /\ \/ active_escalations[OneAlertId].current_level
              = active_escalations[OneAlertId].rule.max_level
       \/ active_escalations[OneAlertId].acknowledgments # <<>>
       \/ active_escalations[OneAlertId].is_resolved

\* C24: while check_escalations keeps being called and time keeps passing, a
\* record under a rule that requires acknowledgment reaches the max level of
\* its rule unless it is acknowledged or resolved first, and no pass raises
\* its level by more than one step of L1 < L2 < L3 < L4.
C24_UnackedReachesMaxLevel ==
    /\ (/\ OneAlertId \in DOMAIN active_escalations
        /\ active_escalations[OneAlertId].rule.require_acknowledgment)
           ~> SettledOne
    /\ [][\A a \in DOMAIN active_escalations :
             Ticked => LevelIndex(active_escalations'[a].current_level)
                          <= LevelIndex(active_escalations[a].current_level) + 1]_observed

\* C24 witness: passes have taken an unacknowledged, unresolved record of
\* the high rule from level 1 through levels 2 and 3 to level 4.
C24_Witness ==
    /\ lastOp.op = "tick"
    /\ OneAlertId \in DOMAIN active_escalations
    /\ LET e == active_escalations[OneAlertId]
       IN /\ e.rule.severity = "high"
          /\ e.current_level = LEVEL_4
          /\ e.acknowledgments = <<>>
          /\ ~e.is_resolved
          /\ [i \in 1..Len(e.notifications_sent) |-> e.notifications_sent[i].level]
                 = <<LEVEL_1, LEVEL_2, LEVEL_3, LEVEL_4>>

====
